---------------------------- MODULE Spec2Model ----------------------------
(***************************************************************************)
(* A model of the chughjug/ratings scrapers:                               *)
(*   src/search_players.py  driver acquisition and the fuzzy card search   *)
(*   src/test.py            profile lookup, the record sink and the batches*)
(*   src/pop.py             the form search and its table parsing          *)
(* Python values are tagged records (None, int, str); a text that the code *)
(* parses is a sequence of one-character strings.                          *)
(***************************************************************************)
EXTENDS Integers, Sequences, FiniteSets, TLC

VARIABLES
    pc,            \* position of the running program
    quits,         \* quits[h]: number of quit() calls made on browser handle h
    driver,        \* the local variable `driver`: 0 when unbound, else a handle
    exc,           \* the exception in flight ("none" when there is none)
    ret,           \* the value returned by the scrape operation
    exists,        \* indices of possible_paths for which os.path.exists holds
    path_i,        \* index of the loop over possible_paths
    attempts,      \* the acquisition attempts made so far, with their outcome
    max_results,   \* argument of the card search
    search_cards,  \* the cards found on the page
    ci,            \* number of cards the loop has consumed
    players,       \* the list the card search builds
    stdout,        \* what the search tool printed to standard output
    card,          \* the card being parsed (single-card extraction)
    badge,         \* the loop variable of the badge loop
    nbadges,       \* badges consumed by the badge loop
    ratings,       \* the ratings dictionary under construction
    player,        \* outcome of parsing one card
    prog,          \* the entry point that was started
    db,            \* the committed content of the players table and its schema
    db0,           \* the committed content when the running sink call began
    work,          \* the content as the sink's open connection sees it
    intxn,         \* whether the connection has an open transaction
    u_id,          \* sink argument player_id
    u_rating,      \* sink argument rating
    u_exp,         \* sink argument expiration_date
    uscf,          \* argument player_id of get_uschess_info
    rating,        \* local variable rating of get_uschess_info
    waits,         \* the awaited elements of the running scrape, with their outcome
    tours,         \* the rosters of the tournaments, in the order they are fetched
    ti,            \* tournaments consumed by the tournament loop
    roster,        \* the player rows the record loop iterates over
    ri,            \* records consumed by the record loop
    succ,          \* successful_updates / tournament_successful
    failed,        \* failed_updates / tournament_failed
    totals,        \* the three running totals of the tournament batch
    visited,       \* the rows the record loop has visited, with the line printed for each
    summary,       \* the summaries printed so far
    html           \* the outer HTML of the results table of the form search

drvVars == <<exists, path_i, attempts>>
srchVars == <<max_results, search_cards, ci, players, stdout>>
cardVars == <<card, badge, nbadges, ratings, player>>
sinkVars == <<db, db0, work, intxn, u_id, u_rating, u_exp>>
lookVars == <<uscf, rating, waits>>
batchVars == <<tours, ti, roster, ri, succ, failed, totals, visited, summary>>
\* the variables of test.py and pop.py, which search_players.py leaves alone
testVars == <<prog, sinkVars, lookVars, batchVars, html>>
\* the variables of search_players.py, which test.py and pop.py leave alone
searchVars == <<drvVars, srchVars, cardVars>>
vars == <<pc, quits, driver, exc, ret, exists, path_i, attempts, max_results,
          search_cards, ci, players, stdout, card, badge, nbadges, ratings, player,
          prog, db, db0, work, intxn, u_id, u_rating, u_exp, uscf, rating, waits,
          tours, ti, roster, ri, succ, failed, totals, visited, summary, html>>

---------------------------------------------------------------------------
(* Bounds of the model. *)
MaxTextLen == 2      \* longest badge value text
MaxBadges == 2       \* most rating badges on one card
MaxCards == 2        \* most cards on a result page
MaxResultsArg == 2   \* largest max_results argument

---------------------------------------------------------------------------
(* Python values. *)
PyNone == [t |-> "None"]
PyInt(n) == [t |-> "int", i |-> n]
PyStr(s) == [t |-> "str", s |-> s]
Missing == [t |-> "missing"]     \* a sub-element the locator does not find

\* bool(x) for the values above
Truthy(x) ==
    CASE x.t = "None" -> FALSE
      [] x.t = "int" -> x.i # 0
      [] x.t = "str" -> x.s # <<>>
      [] OTHER -> TRUE

\* Python's `a or b`
PyOr(a, b) == IF Truthy(a) THEN a ELSE b

RECURSIVE StringsUpTo(_, _)
StringsUpTo(alphabet, n) ==
    IF n = 0 THEN {<<>>}
    ELSE LET shorter == StringsUpTo(alphabet, n - 1)
         IN shorter \cup {Append(s, c) : s \in shorter, c \in alphabet}

\* Characters of the model. "sup2" stands for U+00B2 (superscript two): str.isdigit
\* accepts it and int() rejects it.
DecimalChars == {"0", "1", "2", "3", "4", "5", "6", "7", "8", "9"}
DigitChars == DecimalChars \cup {"sup2"}
CharValue(c) ==
    CASE c = "0" -> 0 [] c = "1" -> 1 [] c = "2" -> 2 [] c = "3" -> 3 [] c = "4" -> 4
      [] c = "5" -> 5 [] c = "6" -> 6 [] c = "7" -> 7 [] c = "8" -> 8 [] c = "9" -> 9

\* str.isdigit(): non-empty and every character a digit character
IsDigit(s) == Len(s) > 0 /\ \A k \in 1..Len(s) : s[k] \in DigitChars

\* all characters decimal digits (what int() accepts between sign and whitespace)
IsDecimal(s) == Len(s) > 0 /\ \A k \in 1..Len(s) : s[k] \in DecimalChars

RECURSIVE DecValue(_)
DecValue(s) ==
    IF s = <<>> THEN 0
    ELSE 10 * DecValue(SubSeq(s, 1, Len(s) - 1)) + CharValue(s[Len(s)])

---------------------------------------------------------------------------
(* search_players.py: extraction of one search-result card. *)

RatingKeys == {"regular", "quick", "blitz", "online_regular", "online_quick", "online_blitz"}

EmptyRatings == [k \in RatingKeys |-> PyNone]

\* the if/elif chain that maps a badge's type code to its key
KeyOfCode(code) ==
    CASE code = <<"R">> -> "regular"
      [] code = <<"Q">> -> "quick"
      [] code = <<"B">> -> "blitz"
      [] code = <<"O", "R">> -> "online_regular"
      [] code = <<"O", "Q">> -> "online_quick"
      [] code = <<"O", "B">> -> "online_blitz"
      [] OTHER -> "none"

\* int(rating_value) if rating_value.isdigit() else None; "ValueError" when int() raises
BadgeValue(text) ==
    IF IsDigit(text)
    THEN IF IsDecimal(text) THEN PyInt(DecValue(text)) ELSE [t |-> "ValueError"]
    ELSE PyNone

\* One iteration of the badge loop: both find_element calls, the if/elif chain, and
\* the per-badge except that skips the badge.
BadgeUpdate(rs, b) ==
    IF b.type = Missing \/ b.value = Missing THEN rs
    ELSE LET key == KeyOfCode(b.type.s)
             val == BadgeValue(b.value.s)
         IN IF key = "none" THEN rs
            ELSE IF val.t = "ValueError" THEN rs
            ELSE [rs EXCEPT ![key] = val]

RECURSIVE ParseBadges(_, _)
ParseBadges(rs, bs) ==
    IF bs = <<>> THEN rs ELSE ParseBadges(BadgeUpdate(rs, Head(bs)), Tail(bs))

\* primary_rating = ratings['regular'] or ratings['quick'] or ratings['blitz']
PrimaryRating(rs) == PyOr(PyOr(rs["regular"], rs["quick"]), rs["blitz"])

Dropped == [t |-> "dropped"]

\* a card body in which the state is read without a handler of its own
BuildPlayerStrict(c, rs) ==
    IF c.name = Missing \/ c.link = Missing \/ c.state = Missing THEN Dropped
    ELSE [t |-> "player",
          name |-> c.name,
          memberId |-> c.link,
          state |-> IF Truthy(c.state) THEN c.state ELSE PyNone,
          ratings |-> rs,
          uscf_id |-> c.link,
          rating |-> PrimaryRating(rs),
          expiration_date |-> IF c.exp = Missing THEN PyNone ELSE c.exp]

\* The body of the per-card try: name and link are read without a handler of their
\* own, so a missing one reaches the per-card except and the card is skipped.
BuildPlayer(c, rs) ==
    IF c.name = Missing \/ c.link = Missing THEN Dropped
    ELSE [t |-> "player",
          name |-> c.name,
          memberId |-> c.link,
          state |-> IF c.state # Missing /\ Truthy(c.state) THEN c.state ELSE PyNone,
          ratings |-> rs,
          uscf_id |-> c.link,
          rating |-> PrimaryRating(rs),
          expiration_date |-> IF c.exp = Missing THEN PyNone ELSE c.exp]

ParseCard(c) == BuildPlayer(c, ParseBadges(EmptyRatings, c.badges))


---------------------------------------------------------------------------
(* Browser handles.  Handles are numbered in the order they are acquired. *)

NoDriver == 0
Unset == [t |-> "unset"]
PyList(l) == [t |-> "list", v |-> l]

\* webdriver.Chrome(...) returned a handle
Acquire(q) == Append(q, 0)
\* a finally block that does not close the handle
NoQuit(q, h) == q
\* driver.quit()
Quit(q, h) == [q EXCEPT ![h] = @ + 1]

OpenHandles == {h \in 1..Len(quits) : quits[h] = 0}

---------------------------------------------------------------------------
(* search_players.py: setup_chrome_driver. *)

NPaths == 4          \* len(possible_paths); the last entry is 'chromedriver'

Attempt(m, i, res) == [m |-> m, i |-> i, res |-> res]

\* The acquiring call of an attempt returned: `return driver`.
SetupReturn(m, i) ==
    /\ attempts' = Append(attempts, Attempt(m, i, "ok"))
    /\ quits' = Acquire(quits)
    /\ driver' = Len(quits) + 1
    /\ pc' = "d_returned"
    /\ UNCHANGED <<exc, path_i>>

\* Method 1: Service(ChromeDriverManager().install()) and webdriver.Chrome
TryManaged ==
    /\ pc = "d_wdm"
    /\ \/ SetupReturn("wdm", 0)
       \/ /\ attempts' = Append(attempts, Attempt("wdm", 0, "fail"))
          /\ pc' = "d_path"
          /\ path_i' = 1
          /\ UNCHANGED <<quits, driver, exc>>
    /\ UNCHANGED <<ret, exists>>
    /\ UNCHANGED <<srchVars, cardVars, testVars>>

\* a loop that gives up on the paths after the first one that did not return
AfterPathBreak(i) == "d_auto"

\* where the loop over possible_paths goes after entry i did not return
AfterPath(i) == IF i = NPaths THEN "d_auto" ELSE "d_path"

\* Method 2: one iteration of the loop over possible_paths
TryPath ==
    /\ pc = "d_path"
    /\ path_i <= NPaths
    /\ IF path_i \in exists \/ path_i = NPaths
       THEN \/ SetupReturn("path", path_i)
            \/ /\ attempts' = Append(attempts, Attempt("path", path_i, "fail"))
               /\ pc' = AfterPath(path_i)
               /\ path_i' = path_i + 1
               /\ UNCHANGED <<quits, driver, exc>>
       ELSE /\ attempts' = Append(attempts, Attempt("path", path_i, "absent"))
            /\ pc' = AfterPath(path_i)
            /\ path_i' = path_i + 1
            /\ UNCHANGED <<quits, driver, exc>>
    /\ UNCHANGED <<ret, exists>>
    /\ UNCHANGED <<srchVars, cardVars, testVars>>

\* Method 3: webdriver.Chrome(options=...) and, when it fails too, the final raise
TryAuto ==
    /\ pc = "d_auto"
    /\ \/ SetupReturn("auto", 0)
       \/ /\ attempts' = Append(attempts, Attempt("auto", 0, "fail"))
          /\ pc' = "d_raised"
          /\ exc' = "WebDriverException"
          /\ UNCHANGED <<quits, driver, path_i>>
    /\ UNCHANGED <<ret, exists>>
    /\ UNCHANGED <<srchVars, cardVars, testVars>>

NextDriver == TryManaged \/ TryPath \/ TryAuto


---------------------------------------------------------------------------
(* search_players.py: get_uscf_player_data and the command-line entry. *)

Min(a, b) == IF a < b THEN a ELSE b
Max(a, b) == IF a > b THEN a ELSE b

\* a loop over the whole list
SliceAll(seq, n) == seq

\* seq[:n]
SliceTo(seq, n) ==
    IF n >= 0 THEN SubSeq(seq, 1, Min(n, Len(seq)))
    ELSE SubSeq(seq, 1, Max(0, Len(seq) + n))

\* The sub-elements a card of the page may carry at position k.
PosChar(k) == <<"1", "2", "3", "4", "5">>[k]
CardName(k) == PyStr(<<"n", PosChar(k)>>)
CardId(k) == PyStr(<<"i", PosChar(k)>>)
PageBadges == {<<>>, <<[type |-> PyStr(<<"R">>), value |-> PyStr(<<"7">>)]>>}
PageCardsAt(k) ==
    [name : {Missing, CardName(k)},
     link : {Missing, CardId(k)},
     state : {Missing, PyStr(<<"NY">>)},
     badges : PageBadges,
     exp : {Missing, PyStr(<<"12/31/2026">>)}]

\* A page: full cards, and cards that lack exactly one sub-element or all optional ones.
Lacks(c) == Cardinality({f \in {"name", "link", "state", "exp"} : c[f] = Missing})
              + (IF c.badges = <<>> THEN 1 ELSE 0)
PageCardKinds(k) ==
    {c \in PageCardsAt(k) :
        \/ Lacks(c) <= 1
        \/ (Lacks(c) = 3 /\ c.name # Missing /\ c.link # Missing)}

RECURSIVE PagesOf(_)
PagesOf(n) ==
    IF n = 0 THEN {<<>>}
    ELSE {Append(p, c) : p \in PagesOf(n - 1), c \in PageCardKinds(n)}

Pages == UNION {PagesOf(n) : n \in 0..MaxCards}

\* results = get_uscf_player_data(search_term, max_results): entry of the outer try
SearchStart ==
    /\ pc = "s_main"
    /\ pc' = "d_wdm"
    /\ UNCHANGED <<quits, driver, exc, ret>>
    /\ UNCHANGED <<drvVars, srchVars, cardVars, testVars>>

\* setup_chrome_driver raised: the outer except returns []
SearchNoDriver ==
    /\ pc = "d_raised"
    /\ ret' = PyList(<<>>)
    /\ exc' = "none"
    /\ pc' = "s_print"
    /\ UNCHANGED <<quits, driver>>
    /\ UNCHANGED <<drvVars, srchVars, cardVars, testVars>>

\* driver.get(search_url) and the fixed sleep
SearchNavigate ==
    /\ pc = "d_returned"
    /\ \/ pc' = "s_find" /\ exc' = exc
       \/ pc' = "s_finally" /\ exc' = "WebDriverException"
    /\ UNCHANGED <<quits, driver, ret>>
    /\ UNCHANGED <<drvVars, srchVars, cardVars, testVars>>

\* search_cards = driver.find_elements(By.CLASS_NAME, "search-card-player")
SearchFind ==
    /\ pc = "s_find"
    /\ \/ \E page \in Pages :
             /\ search_cards' = page
             /\ pc' = "s_loop"
             /\ exc' = exc
       \/ /\ pc' = "s_finally"
          /\ exc' = "WebDriverException"
          /\ UNCHANGED search_cards
    /\ UNCHANGED <<quits, driver, ret, max_results, ci, players, stdout>>
    /\ UNCHANGED <<drvVars, cardVars, testVars>>

\* one iteration of `for card in search_cards[:max_results]`
SearchCard ==
    /\ pc = "s_loop"
    /\ ci < Len(SliceTo(search_cards, max_results))
    /\ LET p == ParseCard(SliceTo(search_cards, max_results)[ci + 1])
       IN players' = IF p = Dropped THEN players ELSE Append(players, p)
    /\ ci' = ci + 1
    /\ UNCHANGED <<pc, quits, driver, exc, ret, max_results, search_cards, stdout>>
    /\ UNCHANGED <<drvVars, cardVars, testVars>>

\* the loop is exhausted: `return players`, which enters the finally
SearchLoopEnd ==
    /\ pc = "s_loop"
    /\ ci = Len(SliceTo(search_cards, max_results))
    /\ ret' = PyList(players)
    /\ pc' = "s_finally"
    /\ UNCHANGED <<quits, driver, exc>>
    /\ UNCHANGED <<drvVars, srchVars, cardVars, testVars>>

\* finally: driver.quit() inside its own try/except; then the return completes or
\* the exception in flight reaches the outer except, which returns []
SearchFinally ==
    /\ pc = "s_finally"
    /\ quits' = Quit(quits, driver)
    /\ IF exc = "none"
       THEN ret' = ret
       ELSE ret' = PyList(<<>>)
    /\ exc' = "none"
    /\ pc' = "s_print"
    /\ UNCHANGED driver
    /\ UNCHANGED <<drvVars, srchVars, cardVars, testVars>>

\* print(json.dumps(results))
SearchPrint ==
    /\ pc = "s_print"
    /\ stdout' = ret
    /\ pc' = "s_done"
    /\ UNCHANGED <<quits, driver, exc, ret, max_results, search_cards, ci, players>>
    /\ UNCHANGED <<drvVars, cardVars, testVars>>

NextSearch ==
    \/ SearchStart \/ NextDriver \/ SearchNoDriver \/ SearchNavigate \/ SearchFind
    \/ SearchCard \/ SearchLoopEnd \/ SearchFinally \/ SearchPrint


---------------------------------------------------------------------------
(* search_players.py: the per-card extraction, one sub-element at a time. *)

BadgeChars == {"0", "7", "sup2", "x"}
BadgeTexts == StringsUpTo(BadgeChars, MaxTextLen)
BadgeCodes == {<<"R">>, <<"Q">>, <<"B">>, <<"O", "R">>, <<"O", "Q">>, <<"O", "B">>, <<"X">>}
Badges ==
    [type : {Missing} \cup {PyStr(c) : c \in BadgeCodes},
     value : {Missing} \cup {PyStr(v) : v \in BadgeTexts}]

NoBadge == [type |-> Missing, value |-> Missing]
NoCard == [name |-> Missing, link |-> Missing, state |-> Missing, exp |-> Missing]

CardInputs ==
    [name : {Missing, PyStr(<<"n">>)},
     link : {Missing, PyStr(<<"i">>)},
     state : {Missing, PyStr(<<>>), PyStr(<<"NY">>)},
     exp : {Missing, PyStr(<<"12/31/2026">>)}]

\* name, link and state are read; a missing name or link ends the card in the
\* per-card except. Otherwise find_elements gives the badge list and ratings is reset.
CardRead ==
    /\ pc = "c_start"
    /\ \E c \in CardInputs :
          /\ card' = c
          /\ IF c.name = Missing \/ c.link = Missing
             THEN /\ player' = BuildPlayer(c, EmptyRatings)
                  /\ pc' = "c_done"
             ELSE /\ player' = player
                  /\ pc' = "c_badges"
    /\ ratings' = EmptyRatings
    /\ nbadges' = 0
    /\ UNCHANGED <<quits, driver, exc, ret, badge>>
    /\ UNCHANGED <<drvVars, srchVars, testVars>>

\* one iteration of `for badge in rating_badges`
BadgeStep ==
    /\ pc = "c_badges"
    /\ nbadges < MaxBadges
    /\ \E b \in Badges :
          /\ badge' = b
          /\ ratings' = BadgeUpdate(ratings, b)
    /\ nbadges' = nbadges + 1
    /\ UNCHANGED <<pc, quits, driver, exc, ret, card, player>>
    /\ UNCHANGED <<drvVars, srchVars, testVars>>

\* the badge loop is exhausted: expiration, primary rating and the player dictionary
CardEmit ==
    /\ pc = "c_badges"
    /\ player' = BuildPlayer(card, ratings)
    /\ pc' = "c_done"
    /\ UNCHANGED <<quits, driver, exc, ret, card, badge, nbadges, ratings>>
    /\ UNCHANGED <<drvVars, srchVars, testVars>>

NextCard == CardRead \/ BadgeStep \/ CardEmit

---------------------------------------------------------------------------
(* test.py: the players table and update_player_rating_and_expiration. *)

MaxRatingLen == 2     \* longest rating text handed to the sink on its own

\* the literal "Not found"
NotFound == <<"N", "o", "t", " ", "f", "o", "u", "n", "d">>

\* str.strip() of blanks
RECURSIVE LStrip(_)
LStrip(s) == IF s # <<>> /\ Head(s) = " " THEN LStrip(Tail(s)) ELSE s
RECURSIVE RStrip(_)
RStrip(s) == IF s # <<>> /\ s[Len(s)] = " " THEN RStrip(SubSeq(s, 1, Len(s) - 1)) ELSE s
Strip(s) == RStrip(LStrip(s))

NotComma(c) == c # ","
\* a replace that removes nothing
KeepCommas(s) == s
\* rating.replace(',', '')
RemoveCommas(s) == SelectSeq(s, NotComma)

\* int(s) for a str: blanks around, an optional sign, then decimal digits; ok is
\* FALSE where int() raises ValueError. (No text of the model has an underscore.)
IntOf(s) ==
    LET t == Strip(s)
        signed == t # <<>> /\ Head(t) \in {"-", "+"}
        body == IF signed THEN Tail(t) ELSE t
    IN IF IsDecimal(body)
       THEN [ok |-> TRUE, v |-> IF t[1] = "-" THEN 0 - DecValue(body) ELSE DecValue(body)]
       ELSE [ok |-> FALSE, v |-> 0]

\* `if rating and rating != "Not found"` and the conversion inside the try
RatingInt(r) ==
    IF Truthy(r) /\ r # PyStr(NotFound)
    THEN IntOf(RemoveCommas(r.s))
    ELSE [ok |-> FALSE, v |-> 0]

\* an UPDATE of the rating without its WHERE clause
SetRatingAll(d, id, v) ==
    [d EXCEPT !.rows = [i \in DOMAIN d.rows |-> [d.rows[i] EXCEPT !.rating = v]]]
\* UPDATE players SET rating = ? WHERE id = ?
SetRating(d, id, v) ==
    IF id \in DOMAIN d.rows THEN [d EXCEPT !.rows[id].rating = v] ELSE d
\* UPDATE players SET expiration_date = ? WHERE id = ?
SetExp(d, id, v) ==
    IF id \in DOMAIN d.rows THEN [d EXCEPT !.rows[id].exp = v] ELSE d

\* A statement raised: the function is left without commit, the connection is dropped
\* and what it had not committed is lost.
SinkRaise(e) ==
    /\ exc' = e
    /\ work' = db'
    /\ intxn' = FALSE
    /\ pc' = "u_return"

\* conn = sqlite3.connect(db_path); cursor = conn.cursor()
SinkConnect ==
    /\ pc = "u_connect"
    /\ db' = db
    /\ \/ /\ work' = db
          /\ intxn' = FALSE
          /\ pc' = "u_rating"
          /\ exc' = exc
       \/ SinkRaise("sqlite3.Error")
    /\ UNCHANGED <<quits, driver, ret, prog, db0, u_id, u_rating, u_exp, html>>
    /\ UNCHANGED <<lookVars, batchVars, searchVars>>

\* the rating block: the UPDATE runs only when the text converts
SinkRating ==
    /\ pc = "u_rating"
    /\ db' = db
    /\ IF RatingInt(u_rating).ok
       THEN \/ /\ work' = SetRating(work, u_id, PyInt(RatingInt(u_rating).v))
               /\ intxn' = TRUE
               /\ pc' = "u_alter"
               /\ exc' = exc
            \/ SinkRaise("sqlite3.Error")
       ELSE /\ pc' = "u_alter"
            /\ UNCHANGED <<work, intxn, exc>>
    /\ UNCHANGED <<quits, driver, ret, prog, db0, u_id, u_rating, u_exp, html>>
    /\ UNCHANGED <<lookVars, batchVars, searchVars>>

\* an ALTER TABLE whose failure is not caught
AlterStrict(hascol) == IF hascol THEN "raise" ELSE "add"

\* ALTER TABLE players ADD COLUMN expiration_date TEXT inside try/except
\* sqlite3.OperationalError: pass
AlterOutcome(hascol) == IF hascol THEN "swallowed" ELSE "add"

\* The column is added unless it exists; outside a transaction the statement is
\* committed at once, inside one it is part of the transaction. Any OperationalError
\* is swallowed.
SinkAlter ==
    /\ pc = "u_alter"
    /\ \/ /\ AlterOutcome(work.col) = "add"
          /\ work' = [work EXCEPT !.col = TRUE]
          /\ db' = IF intxn THEN db ELSE [db EXCEPT !.col = TRUE]
          /\ pc' = "u_exp"
          /\ UNCHANGED <<exc, intxn>>
       \/ /\ AlterOutcome(work.col) \in {"add", "swallowed"}
          /\ pc' = "u_exp"
          /\ UNCHANGED <<work, db, exc, intxn>>
       \/ /\ AlterOutcome(work.col) = "raise"
          /\ db' = db
          /\ SinkRaise("sqlite3.OperationalError")
    /\ UNCHANGED <<quits, driver, ret, prog, db0, u_id, u_rating, u_exp, html>>
    /\ UNCHANGED <<lookVars, batchVars, searchVars>>

\* the UPDATE of expiration_date
SinkExp ==
    /\ pc = "u_exp"
    /\ db' = db
    /\ IF work.col
       THEN \/ /\ work' = SetExp(work, u_id, u_exp)
               /\ intxn' = TRUE
               /\ pc' = "u_commit"
               /\ exc' = exc
            \/ SinkRaise("sqlite3.Error")
       ELSE SinkRaise("sqlite3.OperationalError")
    /\ UNCHANGED <<quits, driver, ret, prog, db0, u_id, u_rating, u_exp, html>>
    /\ UNCHANGED <<lookVars, batchVars, searchVars>>

\* conn.commit(); conn.close()
SinkCommit ==
    /\ pc = "u_commit"
    /\ \/ /\ db' = work
          /\ intxn' = FALSE
          /\ pc' = "u_return"
          /\ UNCHANGED <<work, exc>>
       \/ /\ db' = db
          /\ SinkRaise("sqlite3.Error")
    /\ UNCHANGED <<quits, driver, ret, prog, db0, u_id, u_rating, u_exp, html>>
    /\ UNCHANGED <<lookVars, batchVars, searchVars>>

NextSinkBody == SinkConnect \/ SinkRating \/ SinkAlter \/ SinkExp \/ SinkCommit

\* The sink called on its own, any number of times.
SinkIds == {1, 2}
AbsentId == 9
SinkChars == {"7", ",", "x"}
SinkRatings ==
    {PyNone, PyStr(NotFound), PyStr(<<"2", ",", "1", "0", "4">>)}
        \cup {PyStr(t) : t \in StringsUpTo(SinkChars, MaxRatingLen)}
NewDate == PyStr(<<"12/31/2026">>)
OldDate == PyStr(<<"01/31/2020">>)

SinkCall ==
    /\ pc = "k_idle"
    /\ \E id \in SinkIds \cup {AbsentId}, r \in SinkRatings :
          /\ u_id' = id
          /\ u_rating' = r
          /\ u_exp' = NewDate
    /\ db0' = db
    /\ exc' = "none"
    /\ pc' = "u_connect"
    /\ UNCHANGED <<quits, driver, ret, prog, db, work, intxn, html>>
    /\ UNCHANGED <<lookVars, batchVars, searchVars>>

SinkReturn ==
    /\ pc = "u_return"
    /\ prog = "sink"
    /\ pc' = "k_idle"
    /\ UNCHANGED <<quits, driver, exc, ret, prog, html>>
    /\ UNCHANGED <<sinkVars, lookVars, batchVars, searchVars>>

NextSink == SinkCall \/ NextSinkBody \/ SinkReturn

---------------------------------------------------------------------------
(* test.py: get_uschess_info. *)

\* the dictionary of the return statement
Dict(r, e, p) == [t |-> "dict", rating |-> r, expiration_date |-> e, player_id |-> p]

\* texts of the rating node and of the expiration-date node when they are found
RatingTexts == {<<>>, <<" ", "7", " ">>, <<"2", ",", "1", "0", "4">>}
ExpTexts == {<<" ", "12/31/2026">>}
\* what a navigation or a wait raises when it does not succeed
LookExcs == {"TimeoutException", "WebDriverException"}

WaitLog(w, res) == [w |-> w, res |-> res]

\* an inner handler that catches nothing
InnerCatchesNone(e) == FALSE
\* except (TimeoutException, NoSuchElementException) around the rating block
InnerCatches(e) == e \in {"TimeoutException", "NoSuchElementException"}
\* except (TimeoutException, NoSuchElementException) of the outer try
OuterCatches(e) == e \in {"TimeoutException", "NoSuchElementException"}

\* driver = webdriver.Chrome(service=Service(ChromeDriverManager().install()), ...)
\* inside the outer try; rating = None
LookAcquire ==
    /\ pc = "l_acquire"
    /\ \/ /\ quits' = Acquire(quits)
          /\ driver' = Len(quits) + 1
          /\ pc' = "l_rating"
          /\ exc' = exc
       \/ /\ exc' = "WebDriverException"
          /\ pc' = "l_finally"
          /\ UNCHANGED <<quits, driver>>
    /\ rating' = PyNone
    /\ UNCHANGED <<ret, prog, html, uscf, waits>>
    /\ UNCHANGED <<sinkVars, batchVars, searchVars>>

\* the rating block: driver.get(url_beta), the wait for the rating node, .text.strip()
LookRating ==
    /\ pc = "l_rating"
    /\ \/ \E t \in RatingTexts :
             /\ rating' = PyStr(Strip(t))
             /\ waits' = Append(waits, WaitLog("rating", "found"))
             /\ pc' = "l_exp"
             /\ UNCHANGED <<exc, ret>>
       \/ \E e \in LookExcs :
             /\ waits' = Append(waits, WaitLog("rating", e))
             /\ rating' = rating
             /\ IF InnerCatches(e)
                THEN pc' = "l_exp" /\ UNCHANGED <<exc, ret>>
                ELSE /\ pc' = "l_finally"
                     /\ IF OuterCatches(e)
                        THEN ret' = PyNone /\ exc' = exc
                        ELSE exc' = e /\ ret' = ret
    /\ UNCHANGED <<quits, driver, prog, html, uscf>>
    /\ UNCHANGED <<sinkVars, batchVars, searchVars>>

\* driver.get(url_msa), the wait for the expiration node, and the return statement
LookExp ==
    /\ pc = "l_exp"
    /\ \/ \E t \in ExpTexts :
             /\ waits' = Append(waits, WaitLog("exp", "found"))
             /\ ret' = Dict(IF Truthy(rating) THEN rating ELSE PyStr(NotFound),
                            PyStr(Strip(t)), uscf)
             /\ exc' = exc
       \/ \E e \in LookExcs :
             /\ waits' = Append(waits, WaitLog("exp", e))
             /\ IF OuterCatches(e)
                THEN ret' = PyNone /\ exc' = exc
                ELSE exc' = e /\ ret' = ret
    /\ pc' = "l_finally"
    /\ UNCHANGED <<quits, driver, prog, html, uscf, rating>>
    /\ UNCHANGED <<sinkVars, batchVars, searchVars>>

\* finally: driver.quit(); `driver` is unbound when the acquisition raised, and the
\* UnboundLocalError replaces the exception in flight
LookFinally ==
    /\ pc = "l_finally"
    /\ IF driver = NoDriver
       THEN /\ exc' = "UnboundLocalError"
            /\ ret' = Unset
            /\ quits' = quits
       ELSE /\ quits' = Quit(quits, driver)
            /\ UNCHANGED <<exc, ret>>
    /\ pc' = "l_return"
    /\ UNCHANGED <<driver, prog, html>>
    /\ UNCHANGED <<sinkVars, lookVars, batchVars, searchVars>>

NextLook == LookAcquire \/ LookRating \/ LookExp \/ LookFinally

\* entering get_uschess_info(id): its locals are fresh
LookCall(id) ==
    /\ uscf' = id
    /\ rating' = PyNone
    /\ waits' = <<>>
    /\ driver' = NoDriver
    /\ exc' = "none"
    /\ ret' = Unset
    /\ pc' = "l_acquire"

\* python test.py: player_info = get_uschess_info("14970943")
SingleId == PyStr(<<"14970943">>)
SingleStart ==
    /\ pc = "m_start"
    /\ prog = "single"
    /\ LookCall(SingleId)
    /\ UNCHANGED <<quits, prog, html>>
    /\ UNCHANGED <<sinkVars, batchVars, searchVars>>

\* `if player_info:` and the three prints; an exception ends the program
SingleReturn ==
    /\ pc = "l_return"
    /\ prog = "single"
    /\ pc' = IF exc = "none" THEN "m_done" ELSE "m_crashed"
    /\ stdout' = IF exc = "none" /\ Truthy(ret) THEN ret ELSE stdout
    /\ UNCHANGED <<quits, driver, exc, ret, max_results, search_cards, ci, players>>
    /\ UNCHANGED <<drvVars, cardVars, testVars>>

---------------------------------------------------------------------------
(* test.py: process_all_players and process_all_tournaments_and_players. *)

MaxRoster == 2       \* most player rows with a USCF id in the database
MaxTours == 2        \* most tournaments in the database

\* The tournaments of the database, as the sizes of their rosters. Player rows are
\* numbered in the order the queries return them.
RECURSIVE SumTo(_, _)
SumTo(ts, n) == IF n = 0 THEN 0 ELSE SumTo(ts, n - 1) + ts[n]
Total(ts) == SumTo(ts, Len(ts))
RECURSIVE SizesOf(_)
SizesOf(n) ==
    IF n = 0 THEN {<<>>}
    ELSE {Append(ts, k) : ts \in SizesOf(n - 1), k \in 0..MaxRoster}
TourConfigs == {ts \in UNION {SizesOf(n) : n \in 0..MaxTours} : Total(ts) <= MaxRoster}

\* a row of get_all_players_from_db / get_players_by_tournament: (id, ..., uscf_id, ...)
Row(k) == [id |-> k, uscf |-> PyStr(<<PosChar(k)>>)]
\* get_players_by_tournament(tournament_id) for the i-th tournament
RosterOf(ts, i) == [k \in 1..ts[i] |-> Row(SumTo(ts, i - 1) + k)]
\* get_all_players_from_db()
AllPlayers(ts) == [k \in 1..Total(ts) |-> Row(k)]

Visit(id, out) == [id |-> id, out |-> out]
Summary(kind, n, ok, bad) == [kind |-> kind, processed |-> n, ok |-> ok, failed |-> bad]
NoTotals == [processed |-> 0, ok |-> 0, failed |-> 0]

Batches == {"all", "tournaments"}

\* a handler for the scrape's own failures only
CatchesScrapeOnly(e) == e \in {"TimeoutException", "NoSuchElementException"}
\* `except Exception as e` around one record
Catches(e) ==
    e \in {"TimeoutException", "NoSuchElementException", "WebDriverException",
           "UnboundLocalError", "ValueError", "sqlite3.Error", "sqlite3.OperationalError"}

\* process_all_players: the query, the early return on an empty roster, the counters
AllStart ==
    /\ pc = "m_start"
    /\ prog = "all"
    /\ roster' = AllPlayers(tours)
    /\ pc' = IF roster' = <<>> THEN "m_done" ELSE "b_loop"
    /\ ri' = 0
    /\ succ' = 0
    /\ failed' = 0
    /\ UNCHANGED <<quits, driver, exc, ret, prog, html, tours, ti, totals, visited, summary>>
    /\ UNCHANGED <<sinkVars, lookVars, searchVars>>

\* process_all_tournaments_and_players: the query, the early return, the totals
TourStart ==
    /\ pc = "m_start"
    /\ prog = "tournaments"
    /\ pc' = IF tours = <<>> THEN "m_done" ELSE "t_loop"
    /\ ti' = 0
    /\ totals' = NoTotals
    /\ UNCHANGED <<quits, driver, exc, ret, prog, html, tours, roster, ri, succ, failed,
                   visited, summary>>
    /\ UNCHANGED <<sinkVars, lookVars, searchVars>>

\* one tournament: its roster is read; an empty roster goes on to the next tournament
TourNext ==
    /\ pc = "t_loop"
    /\ ti < Len(tours)
    /\ ti' = ti + 1
    /\ roster' = RosterOf(tours, ti + 1)
    /\ IF roster' = <<>>
       THEN /\ pc' = "t_loop"
            /\ UNCHANGED <<ri, succ, failed>>
       ELSE /\ pc' = "b_loop"
            /\ ri' = 0
            /\ succ' = 0
            /\ failed' = 0
    /\ UNCHANGED <<quits, driver, exc, ret, prog, html, tours, totals, visited, summary>>
    /\ UNCHANGED <<sinkVars, lookVars, searchVars>>

\* the next record of the roster: player_info = get_uschess_info(uscf_id)
BatchNext ==
    /\ pc = "b_loop"
    /\ ri < Len(roster)
    /\ ri' = ri + 1
    /\ LookCall(roster[ri + 1].uscf)
    /\ UNCHANGED <<quits, prog, html, tours, ti, roster, succ, failed, totals, visited,
                   summary>>
    /\ UNCHANGED <<sinkVars, searchVars>>

\* the record is done without an update: the counter, the print, time.sleep(2)
RecordFailed(out) ==
    /\ failed' = failed + 1
    /\ visited' = Append(visited, Visit(roster[ri].id, out))
    /\ exc' = "none"
    /\ pc' = "b_loop"
    /\ UNCHANGED succ

\* an exception no handler of the loop takes ends the batch
BatchCrash ==
    /\ pc' = "m_crashed"
    /\ UNCHANGED <<exc, succ, failed, visited>>

\* get_uschess_info returned or raised
BatchAfterLookup ==
    /\ pc = "l_return"
    /\ prog \in Batches
    /\ IF exc # "none"
       THEN /\ IF Catches(exc) THEN RecordFailed("error") ELSE BatchCrash
            /\ UNCHANGED <<db0, u_id, u_rating, u_exp>>
       ELSE IF Truthy(ret)
            THEN /\ u_id' = roster[ri].id
                 /\ u_rating' = ret.rating
                 /\ u_exp' = ret.expiration_date
                 /\ db0' = db
                 /\ pc' = "u_connect"
                 /\ UNCHANGED <<exc, succ, failed, visited>>
            ELSE /\ RecordFailed("none")
                 /\ UNCHANGED <<db0, u_id, u_rating, u_exp>>
    /\ UNCHANGED <<quits, driver, ret, prog, html, db, work, intxn, tours, ti, roster, ri,
                   totals, summary>>
    /\ UNCHANGED <<lookVars, searchVars>>

\* update_player_rating_and_expiration returned or raised
BatchAfterUpdate ==
    /\ pc = "u_return"
    /\ prog \in Batches
    /\ IF exc = "none"
       THEN /\ succ' = succ + 1
            /\ visited' = Append(visited, Visit(roster[ri].id, "updated"))
            /\ pc' = "b_loop"
            /\ UNCHANGED <<exc, failed>>
       ELSE IF Catches(exc) THEN RecordFailed("error") ELSE BatchCrash
    /\ UNCHANGED <<quits, driver, ret, prog, html, tours, ti, roster, ri, totals, summary>>
    /\ UNCHANGED <<sinkVars, lookVars, searchVars>>

\* the roster is exhausted: the summary of process_all_players, or the tournament
\* summary and the totals
BatchSummary ==
    /\ pc = "b_loop"
    /\ ri = Len(roster)
    /\ IF prog = "all"
       THEN /\ summary' = Append(summary, Summary("all", Len(roster), succ, failed))
            /\ pc' = "m_done"
            /\ UNCHANGED totals
       ELSE /\ summary' = Append(summary, Summary("tournament", Len(roster), succ, failed))
            /\ totals' = [processed |-> totals.processed + Len(roster),
                          ok |-> totals.ok + succ,
                          failed |-> totals.failed + failed]
            /\ pc' = "t_loop"
    /\ UNCHANGED <<quits, driver, exc, ret, prog, html, tours, ti, roster, ri, succ, failed,
                   visited>>
    /\ UNCHANGED <<sinkVars, lookVars, searchVars>>

\* the tournaments are exhausted: OVERALL SUMMARY
TourOverall ==
    /\ pc = "t_loop"
    /\ ti = Len(tours)
    /\ summary' = Append(summary, Summary("overall", totals.processed, totals.ok,
                                          totals.failed))
    /\ pc' = "m_done"
    /\ UNCHANGED <<quits, driver, exc, ret, prog, html, tours, ti, roster, ri, succ, failed,
                   totals, visited>>
    /\ UNCHANGED <<sinkVars, lookVars, searchVars>>

NextBatch ==
    \/ AllStart \/ TourStart \/ TourNext \/ BatchNext \/ BatchAfterLookup
    \/ BatchAfterUpdate \/ BatchSummary \/ TourOverall

\* python test.py [all | tournaments]
NextTest == SingleStart \/ SingleReturn \/ NextLook \/ NextBatch \/ NextSinkBody

---------------------------------------------------------------------------
(* pop.py: get_uscf_player_data (the form search) and the module's top level. *)

MaxRows == 2         \* most rows in the body of the results table

\* "LF" stands for a line break inside a cell.
NameTexts == {<<"a">>, <<"x", "LF", " ", "b", " ">>}
\* A row of the results table as read_html reads it: the cell of the Name column and
\* the other cells; PyNone is NaN.
RowKinds ==
    [name : {PyNone} \cup {PyStr(n) : n \in NameTexts},
     other : {PyNone, PyStr(<<"1">>)}]
RECURSIVE RowsUpTo(_)
RowsUpTo(n) ==
    IF n = 0 THEN {<<>>}
    ELSE LET shorter == RowsUpTo(n - 1)
         IN shorter \cup {Append(rs, r) : rs \in shorter, r \in RowKinds}
\* The results table: the form of its <tbody> tag, its body rows, and its header
\* ("frame": eleven columns, one of them Name; "noname": no Name column; "narrow": not
\* eleven columns; "unreadable": read_html raises).
Tables ==
    [tbody : {"plain", "attrs"},
     rows : RowsUpTo(MaxRows),
     shape : {"frame", "noname", "narrow", "unreadable"}]

FormExcs == {"TimeoutException", "NoSuchElementException", "WebDriverException"}
TimeoutMessage == PyStr(<<"A timeout error occurred.">>)
UnexpectedMessage == PyStr(<<"An unexpected error occurred during the scraping process">>)
ParseErrorMessage == PyStr(<<"Error parsing HTML table">>)
StructureMessage == PyStr(<<"Table found but no data extracted - structure issue">>)
NoRowsMessage == PyStr(<<"No data extracted from the table after search.">>)
CanonicalColumns ==
    <<"Name", "Member ID", "Regular Rating", "Quick Rating", "Blitz Rating",
      "Online Regular", "Online Quick", "Online Blitz", "Correspondence", "State",
      "Membership Expires">>
DataFrame(cols, rows) == [t |-> "DataFrame", columns |-> cols, rows |-> rows]

\* everything the form search leaves alone
formFrame ==
    <<prog, sinkVars, batchVars, uscf, rating, drvVars, cardVars, max_results,
      search_cards, ci, players>>

\* the two handlers of the outer try
FormMessage(e) ==
    IF e \in {"TimeoutException", "NoSuchElementException"}
    THEN TimeoutMessage
    ELSE UnexpectedMessage

\* a step inside the try raised e at wait w: its handler returns a message, then the
\* finally runs
FormRaise(w, e) ==
    /\ waits' = Append(waits, WaitLog(w, e))
    /\ ret' = FormMessage(e)
    /\ pc' = "f_finally"

FormFail(w) == \E e \in FormExcs : FormRaise(w, e)

FormGoes(w, next) ==
    /\ waits' = Append(waits, WaitLog(w, "found"))
    /\ pc' = next
    /\ ret' = ret

\* service = Service(ChromeDriverManager().install()); driver = webdriver.Chrome(...)
\* before the try
FormAcquire ==
    /\ pc = "f_acquire"
    /\ \/ /\ quits' = Acquire(quits)
          /\ driver' = Len(quits) + 1
          /\ pc' = "f_nav"
          /\ exc' = exc
       \/ /\ exc' = "WebDriverException"
          /\ pc' = "m_crashed"
          /\ UNCHANGED <<quits, driver>>
    /\ UNCHANGED <<ret, searchVars, testVars>>

\* driver.get(URL)
FormNavigate ==
    /\ pc = "f_nav"
    /\ (FormGoes("get", "f_input") \/ FormFail("get"))
    /\ UNCHANGED <<quits, driver, exc, html, stdout, formFrame>>

\* STEP 1: the wait for the name input, send_keys
FormInput ==
    /\ pc = "f_input"
    /\ (FormGoes("input", "f_button") \/ FormFail("input"))
    /\ UNCHANGED <<quits, driver, exc, html, stdout, formFrame>>

\* STEP 2: the wait for the Search button, click; the page then holds the results
\* table of this search
FormButton ==
    /\ pc = "f_button"
    /\ \/ /\ FormGoes("button", "f_row")
          /\ \E tb \in Tables : html' = tb
       \/ /\ FormFail("button")
          /\ html' = html
    /\ UNCHANGED <<quits, driver, exc, stdout, formFrame>>

\* STEP 3: the wait for the first row of the table body; a body without rows never
\* satisfies it
FormRow ==
    /\ pc = "f_row"
    /\ IF html.rows = <<>>
       THEN \E e \in {"TimeoutException", "WebDriverException"} : FormRaise("row", e)
       ELSE FormGoes("row", "f_cell") \/ FormFail("row")
    /\ UNCHANGED <<quits, driver, exc, html, stdout, formFrame>>

\* a cell wait without a handler
CellCatchesNone(e) == FALSE
\* the bare `except:` around the wait for a non-empty first cell
CellCatches(e) == TRUE

\* the wait for a non-empty first cell, then time.sleep(5)
FormCell ==
    /\ pc = "f_cell"
    /\ \/ FormGoes("cell", "f_table")
       \/ \E e \in FormExcs :
             IF CellCatches(e)
             THEN /\ waits' = Append(waits, WaitLog("cell", e))
                  /\ pc' = "f_table"
                  /\ ret' = ret
             ELSE FormRaise("cell", e)
    /\ UNCHANGED <<quits, driver, exc, html, stdout, formFrame>>

\* STEP 4: find_element of the table and its outerHTML
FormTable ==
    /\ pc = "f_table"
    /\ \/ FormGoes("table", "f_parse")
       \/ \E e \in {"NoSuchElementException", "WebDriverException"} : FormRaise("table", e)
    /\ UNCHANGED <<quits, driver, exc, html, stdout, formFrame>>

\* pd.read_html(StringIO(html_table)): it raises, or gives the list of the frames found
ReadHtml(tb) ==
    IF tb.shape = "unreadable"
    THEN [ok |-> FALSE, frames |-> <<>>]
    ELSE [ok |-> TRUE, frames |-> <<tb>>]

IsNull(r) == r.name = PyNone /\ r.other = PyNone
\* results_df.isnull().all().all()
AllNull(tb) == \A k \in 1..Len(tb.rows) : IsNull(tb.rows[k])

\* x.split('\n')[-1]
RECURSIVE AfterLastBreak(_)
AfterLastBreak(s) ==
    IF \E k \in 1..Len(s) : s[k] = "LF" THEN AfterLastBreak(Tail(s)) ELSE s
\* lambda x: x.split('\n')[-1].strip() if pd.notna(x) and isinstance(x, str) else x
CleanName(x) == IF x.t = "str" THEN PyStr(Strip(AfterLastBreak(x.s))) ELSE x

\* re.search(r'<tbody>(.*?)</tbody>', html_table, re.DOTALL): only a tag without
\* attributes matches
TbodyMatch(tb) == tb.tbody = "plain"
\* len(re.findall(r'<tr[^>]*>(.*?)</tr>', tbody_content, re.DOTALL))
RowMatches(tb) == Len(tb.rows)
\* what the fallback prints: "Found N rows in tbody" when the tag matched
FallbackPrint(tb) ==
    IF TbodyMatch(tb) THEN [t |-> "print", found |-> RowMatches(tb)] ELSE Unset

\* the all-NaN branch is taken
FallbackEntered(tb) ==
    /\ ReadHtml(tb).ok
    /\ ReadHtml(tb).frames # <<>>
    /\ AllNull(ReadHtml(tb).frames[1])

\* STEP 5: pd.read_html, the all-NaN check, the Name clean-up and the renaming; a
\* missing Name column (KeyError) and a column count other than eleven (ValueError)
\* reach the handler of the parsing try
ParseTable(tb) ==
    LET r == ReadHtml(tb)
    IN IF ~r.ok THEN ParseErrorMessage
       ELSE IF r.frames = <<>> THEN NoRowsMessage
       ELSE LET df == r.frames[1]
            IN IF AllNull(df) THEN StructureMessage
               ELSE IF df.shape # "frame" THEN ParseErrorMessage
               ELSE DataFrame(CanonicalColumns,
                              [k \in 1..Len(df.rows) |->
                                  [df.rows[k] EXCEPT !.name = CleanName(@)]])

FormParse ==
    /\ pc = "f_parse"
    /\ ret' = ParseTable(html)
    /\ stdout' = IF FallbackEntered(html) THEN FallbackPrint(html) ELSE stdout
    /\ pc' = "f_finally"
    /\ UNCHANGED <<quits, driver, exc, html, waits, formFrame>>

\* finally: driver.quit()
FormFinally ==
    /\ pc = "f_finally"
    /\ quits' = Quit(quits, driver)
    /\ pc' = "f_print"
    /\ UNCHANGED <<driver, exc, ret, searchVars, testVars>>

\* results_df = get_uscf_player_data(SEARCH_QUERY) and the display of the result
FormPrint ==
    /\ pc = "f_print"
    /\ stdout' = ret
    /\ pc' = "m_done"
    /\ UNCHANGED <<quits, driver, exc, ret, max_results, search_cards, ci, players>>
    /\ UNCHANGED <<drvVars, cardVars, testVars>>

NextForm ==
    \/ FormAcquire \/ FormNavigate \/ FormInput \/ FormButton \/ FormRow \/ FormCell
    \/ FormTable \/ FormParse \/ FormFinally \/ FormPrint

\* any of the programs of the repository
Next == NextSearch \/ NextForm \/ NextTest

---------------------------------------------------------------------------
(* Initial states and specifications. *)

InitCore ==
    /\ quits = <<>>
    /\ driver = NoDriver
    /\ exc = "none"
    /\ ret = Unset

InitDriverVars ==
    /\ exists \in SUBSET (1..(NPaths - 1))
    /\ path_i = 0
    /\ attempts = <<>>

InitSearchVars ==
    /\ max_results \in (-1)..MaxResultsArg
    /\ search_cards = <<>>
    /\ ci = 0
    /\ players = <<>>
    /\ stdout = Unset

InitCardVars ==
    /\ card = NoCard
    /\ badge = NoBadge
    /\ nbadges = 0
    /\ ratings = EmptyRatings
    /\ player = Unset

\* the players table before the run: every row has a rating; the expiration_date
\* column may not exist yet
TableOf(ids, hascol) ==
    [col |-> hascol,
     rows |-> [id \in ids |-> [rating |-> PyInt(1500),
                               exp |-> IF hascol THEN OldDate ELSE PyNone]]]

InitSinkVars(ids) ==
    /\ \E hascol \in BOOLEAN : db = TableOf(ids, hascol)
    /\ db0 = db
    /\ work = db
    /\ intxn = FALSE
    /\ u_id = 0
    /\ u_rating = PyNone
    /\ u_exp = PyNone

InitLookVars ==
    /\ uscf = PyNone
    /\ rating = PyNone
    /\ waits = <<>>

InitBatchVars ==
    /\ tours = <<>>
    /\ ti = 0
    /\ roster = <<>>
    /\ ri = 0
    /\ succ = 0
    /\ failed = 0
    /\ totals = [processed |-> 0, ok |-> 0, failed |-> 0]
    /\ visited = <<>>
    /\ summary = <<>>

InitSearchFile ==
    /\ InitCore /\ InitDriverVars /\ InitSearchVars /\ InitCardVars

\* search_players.py at rest
InitSearchIdle ==
    /\ InitSearchFile
    /\ exists = {}
    /\ max_results = 0

\* test.py and pop.py at rest
InitTestIdle ==
    /\ InitSinkVars({}) /\ db.col = FALSE
    /\ InitLookVars /\ InitBatchVars
    /\ html = Unset

\* python3 search_players.py <search_term> <max_results>
InitSearch ==
    /\ pc = "s_main"
    /\ prog = "search"
    /\ InitSearchFile /\ InitTestIdle

SpecSearch == InitSearch /\ [][NextSearch]_vars

\* the extraction of one card
InitCard ==
    /\ pc = "c_start"
    /\ prog = "card"
    /\ InitSearchIdle /\ InitTestIdle

SpecCard == InitCard /\ [][NextCard]_vars

\* update_player_rating_and_expiration called on its own
InitSink ==
    /\ pc = "k_idle"
    /\ prog = "sink"
    /\ InitSearchIdle
    /\ InitSinkVars(SinkIds) /\ InitLookVars /\ InitBatchVars
    /\ html = Unset

SpecSink == InitSink /\ [][NextSink]_vars

\* python test.py | python test.py all | python test.py tournaments, on a database
\* whose player rows all carry a USCF id
InitTest ==
    /\ pc = "m_start"
    /\ prog \in {"single", "all", "tournaments"}
    /\ InitSearchIdle
    /\ tours \in (IF prog = "single" THEN {<<>>}
                  ELSE IF prog = "all" THEN {ts \in TourConfigs : Len(ts) <= 1}
                  ELSE TourConfigs)
    /\ InitSinkVars(1..Total(tours))
    /\ InitLookVars
    /\ ti = 0 /\ roster = <<>> /\ ri = 0 /\ succ = 0 /\ failed = 0
    /\ totals = NoTotals /\ visited = <<>> /\ summary = <<>>
    /\ html = Unset

SpecTest == InitTest /\ [][NextTest]_vars

\* python pop.py
InitForm ==
    /\ pc = "f_acquire"
    /\ prog = "form"
    /\ InitSearchIdle /\ InitTestIdle

SpecForm == InitForm /\ [][NextForm]_vars

Init == InitSearch \/ InitForm \/ InitTest

Spec == Init /\ [][Next]_vars

---------------------------------------------------------------------------
(* Claims about driver acquisition and the card search. *)

\* the strategies in their documented order: managed, each listed path, framework
Strategy(k) ==
    IF k = 1 THEN [m |-> "wdm", i |-> 0]
    ELSE IF k = NPaths + 2 THEN [m |-> "auto", i |-> 0]
    ELSE [m |-> "path", i |-> k - 1]

Failed(a) == a.res \in {"fail", "absent"}
InSetup == pc \in {"d_wdm", "d_path", "d_auto"}
\* every strategy has been attempted and none returned a handle
AllFailed ==
    /\ Len(attempts) = NPaths + 2
    /\ \A k \in 1..Len(attempts) : Failed(attempts[k])

\* C2: setup_chrome_driver tries the managed driver, then each listed path in list
\* order, then the framework-located driver (a listed path that is not on the file
\* system counts as a failed attempt that launches nothing); it returns the handle
\* of the first attempt that succeeds, attempts nothing after a success, goes on after
\* every failure, and raises exactly when every attempt has failed.
C2_FirstSuccessWins ==
    /\ Len(attempts) <= NPaths + 2
    /\ \A k \in 1..Len(attempts) :
          /\ attempts[k].m = Strategy(k).m
          /\ attempts[k].i = Strategy(k).i
          /\ (k < Len(attempts) => Failed(attempts[k]))
          /\ (attempts[k].res = "absent" => attempts[k].m = "path" /\ attempts[k].i \notin exists)
    /\ Len(quits) = Cardinality({k \in 1..Len(attempts) : attempts[k].res = "ok"})
    /\ (InSetup => \A k \in 1..Len(attempts) : Failed(attempts[k]))
    /\ (pc = "d_returned" =>
          /\ attempts # <<>>
          /\ attempts[Len(attempts)].res = "ok"
          /\ driver = Len(quits)
          /\ exc = "none")
    /\ (pc = "d_raised" => AllFailed /\ exc = "WebDriverException" /\ driver = NoDriver)
    /\ (AllFailed => pc \in {"d_raised", "s_print", "s_done"} /\ quits = <<>>)
    /\ ((pc # "s_main" /\ ~InSetup /\ ~AllFailed) => attempts[Len(attempts)].res = "ok")

\* C2 witness: the managed driver and the first path fail, the second path is absent,
\* and the third path returns the handle
C2_Witness ==
    /\ pc = "d_returned"
    /\ Len(attempts) = 4
    /\ attempts[2].res = "fail"
    /\ attempts[3].res = "absent"
    /\ attempts[4].res = "ok"
    /\ driver = 1

Returned == pc \in {"s_print", "s_done"}
Consumed == SliceTo(search_cards, max_results)
Kept(c) == c.name # Missing /\ c.link # Missing
ResultKeys == {"name", "memberId", "state", "ratings", "rating", "expiration_date"}

\* C9: for a non-negative max_results the card search returns a list of at most
\* max_results player dictionaries, taken in page order from the first max_results
\* cards only, each with the keys name, memberId, state, ratings, rating and
\* expiration_date.
C9_AtMostMaxResults ==
    (Returned /\ max_results >= 0) =>
        /\ ret.t = "list"
        /\ Len(ret.v) <= max_results
        /\ \A j \in 1..Len(ret.v) :
              /\ ret.v[j].t = "player"
              /\ ResultKeys \subseteq DOMAIN ret.v[j]
              /\ \E k \in 1..Min(max_results, Len(search_cards)) :
                    ret.v[j].memberId = search_cards[k].link
        /\ \A j1, j2 \in 1..Len(ret.v) :
              j1 < j2 =>
                 \E k1, k2 \in 1..Len(search_cards) :
                    /\ k1 < k2
                    /\ ret.v[j1].memberId = search_cards[k1].link
                    /\ ret.v[j2].memberId = search_cards[k2].link

\* C9 witness: two cards on the page, max_results = 1, and the first card printed
C9_Witness ==
    /\ pc = "s_done"
    /\ max_results = 1
    /\ Len(search_cards) = 2
    /\ Kept(search_cards[1])
    /\ Len(stdout.v) = 1
    /\ stdout.v[1].memberId = CardId(1)

\* C8 (as claimed): every sub-element of a card is attempted independently, so every
\* card the loop has consumed has a record in the list, whatever it lacks.
C8_NoCardDropped ==
    pc = "s_loop" => Len(players) = ci

KeptUpTo(n) == {k \in 1..n : Kept(Consumed[k])}

\* the record the claim describes for a card that has a name and a link
RecordAsClaimed(p, c) ==
    /\ p.t = "player"
    /\ p.name = c.name
    /\ p.memberId = c.link
    /\ p.state = (IF c.state = Missing THEN PyNone ELSE c.state)
    /\ p.expiration_date = (IF c.exp = Missing THEN PyNone ELSE c.exp)
    /\ (c.badges = <<>> =>
          /\ \A key \in RatingKeys : p.ratings[key] = PyNone
          /\ p.rating = PyNone)
    /\ (c.badges # <<>> => p.ratings["regular"] = PyInt(7) /\ p.rating = PyInt(7))

\* C8 (amended): state, rating badges and expiration text are attempted independently:
\* when one of them is missing its field is null and the record is still emitted with
\* the other fields; a card whose name or profile link is missing gets no record, and
\* the cards after it are still processed.
C8_OptionalFieldsTolerated ==
    pc = "s_loop" =>
        /\ Len(players) = Cardinality(KeptUpTo(ci))
        /\ \A k \in KeptUpTo(ci) :
              RecordAsClaimed(players[Cardinality(KeptUpTo(k))], Consumed[k])

\* C8 witness: the first card has no name and is skipped, the second has no state
\* and is printed with a null state
C8_Witness ==
    /\ pc = "s_done"
    /\ max_results = 2
    /\ Len(search_cards) = 2
    /\ search_cards[1].name = Missing
    /\ Kept(search_cards[2])
    /\ search_cards[2].state = Missing
    /\ stdout.t = "list"
    /\ Len(stdout.v) = 1
    /\ stdout.v[1].memberId = CardId(2)
    /\ stdout.v[1].state = PyNone

FirstNonNull(seq) ==
    IF \E k \in 1..Len(seq) : seq[k] # PyNone
    THEN seq[CHOOSE k \in 1..Len(seq) : seq[k] # PyNone /\ \A l \in 1..(k - 1) : seq[l] = PyNone]
    ELSE PyNone

\* C6: the primary rating of a card's record is the first non-null value among its
\* regular, quick and blitz ratings in that order, the value 0 included, and is null
\* only when all three are null.
C6_PrimaryIsFirstNonNull ==
    (pc = "c_done" /\ player.t = "player") =>
        player.rating =
            FirstNonNull(<<player.ratings["regular"], player.ratings["quick"],
                           player.ratings["blitz"]>>)

IsRunOfDigits(text) == Len(text) > 0 /\ \A k \in 1..Len(text) : text[k] \in {"0", "1", "2", "3", "4", "5", "6", "7", "8", "9"}
Recognised(b) == b.type # Missing /\ b.value # Missing /\ KeyOfCode(b.type.s) # "none"
NullOrNat(x) == x = PyNone \/ (x.t = "int" /\ x.i >= 0)

\* C7: every rating field is null or a non-negative integer; a badge with a recognised
\* type code and value text t sets its category to int(t) when t is a run of digits and
\* to null otherwise; any other badge changes no field.
C7_BadgeSetsIntOrNull ==
    [][nbadges' = nbadges + 1 =>
          /\ \A key \in RatingKeys : NullOrNat(ratings'[key])
          /\ IF Recognised(badge')
             THEN ratings' =
                    [ratings EXCEPT ![KeyOfCode(badge'.type.s)] =
                        IF IsRunOfDigits(badge'.value.s)
                        THEN PyInt(DecValue(badge'.value.s))
                        ELSE PyNone]
             ELSE ratings' = ratings]_vars
---------------------------------------------------------------------------
(* Claims about the browser handle, the profile lookup, the sink and the batches. *)

\* the control points at which an operation holds the handle it acquired
Holding ==
    {"d_returned", "s_find", "s_loop", "s_finally",
     "f_nav", "f_input", "f_button", "f_row", "f_cell", "f_table", "f_parse",
     "f_finally",
     "l_rating", "l_exp"}

\* C1: in the form search, the card search and the profile lookup every handle that
\* was acquired is closed exactly once before the operation returns or raises,
\* whichever later step fails, and at no point of a run, a batch over many records
\* included, is more than one handle open.
C1_HandleClosedOnce ==
    /\ \A h \in 1..Len(quits) : quits[h] <= 1
    /\ Cardinality(OpenHandles) <= 1
    /\ (pc \in Holding => OpenHandles = {driver} /\ driver = Len(quits))
    /\ (pc \notin Holding \cup {"l_finally"} => OpenHandles = {})
    /\ (pc = "l_finally" => OpenHandles = (IF driver = NoDriver THEN {} ELSE {driver}))

\* C1 witness: a batch over two records has ended, the first lookup raised after its
\* handle was acquired, and both handles are closed once
C1_Witness ==
    /\ pc = "m_done"
    /\ prog = "all"
    /\ quits = <<1, 1>>
    /\ Len(visited) = 2
    /\ visited[1].out = "error"
    /\ visited[2].out = "updated"

\* C10: when the expiration-date node is found, get_uschess_info returns a dictionary
\* with the keys rating, expiration_date and player_id, player_id being the id passed
\* in; when the rating node was not found within its timeout the lookup still goes on
\* to the expiration page and the returned rating is the string "Not found".
C10_LookupReturnsRecord ==
    /\ (waits = <<WaitLog("rating", "TimeoutException")>> => pc = "l_exp" /\ exc = "none")
    /\ (/\ pc \in {"l_finally", "l_return"}
        /\ waits # <<>>
        /\ waits[Len(waits)] = WaitLog("exp", "found"))
       => /\ exc = "none"
          /\ ret.t = "dict"
          /\ {"rating", "expiration_date", "player_id"} \subseteq DOMAIN ret
          /\ ret.player_id = uscf
          /\ ret.expiration_date = NewDate
          /\ (waits[1].res = "TimeoutException" => ret.rating = PyStr(NotFound))
          /\ (waits[1].res = "found" => ret.rating \in {PyStr(NotFound), rating})

\* C10 witness: in a batch, the lookup of the second record timed out on the rating
\* node, found the expiration date and returned the record
C10_Witness ==
    /\ pc = "l_return"
    /\ prog \in Batches
    /\ uscf = Row(2).uscf
    /\ waits = <<WaitLog("rating", "TimeoutException"), WaitLog("exp", "found")>>
    /\ ret.t = "dict"
    /\ ret.rating = PyStr(NotFound)
    /\ ret.player_id = Row(2).uscf

IsntComma(c) == c # ","
\* the integer the claim expects to be stored, if any
Expected(r) ==
    IF r = PyNone \/ r = PyStr(<<>>) \/ r = PyStr(NotFound)
    THEN [ok |-> FALSE, v |-> 0]
    ELSE IntOf(SelectSeq(r.s, IsntComma))

\* C4: update_player_rating_and_expiration writes the rating of the target row only
\* when the rating text without its commas converts to an integer, and then stores
\* that integer ("2,104" is stored as 2104); when the rating is missing, is
\* "Not found" or does not convert, the stored rating is unchanged and the call does
\* not fail for it; in all these cases the expiration date of the row is written, and
\* no other row changes.
C4_RatingStoredWhenConvertible ==
    /\ (pc \in {"u_alter", "u_exp", "u_commit"} /\ ~Expected(u_rating).ok
            => /\ exc = "none"
               /\ \A id \in DOMAIN work.rows : work.rows[id].rating = db.rows[id].rating)
    /\ (pc = "u_return" /\ exc = "none") =>
          /\ \A id \in DOMAIN db.rows :
                IF id = u_id
                THEN /\ db.rows[id].exp = u_exp
                     /\ db.rows[id].rating =
                          (IF Expected(u_rating).ok
                           THEN PyInt(Expected(u_rating).v)
                           ELSE db0.rows[id].rating)
                ELSE db.rows[id] = db0.rows[id]
          /\ (u_rating = PyStr(<<"2", ",", "1", "0", "4">>) /\ u_id \in DOMAIN db.rows
                => db.rows[u_id].rating = PyInt(2104))

\* C4 witness: a call with the rating "2,104" for row 1 has returned; row 1 holds
\* 2104 and the new expiration date, row 2 is as before
C4_Witness ==
    /\ pc = "u_return"
    /\ exc = "none"
    /\ u_id = 1
    /\ u_rating = PyStr(<<"2", ",", "1", "0", "4">>)
    /\ db0.rows[1].rating = PyInt(1500)
    /\ db.rows[1] = [rating |-> PyInt(2104), exp |-> NewDate]
    /\ db.rows[2] = db0.rows[2]

\* C5: column provisioning is idempotent: a call against a schema without the
\* expiration_date column adds it, and every later call against that schema, for any
\* sequence of calls, neither raises for the existing column nor changes the schema.
C5_ProvisioningIdempotent ==
    /\ (db0.col => db.col /\ work.col)
    /\ (pc = "u_return" /\ db0.col => exc # "sqlite3.OperationalError")
    /\ (pc = "u_return" /\ exc = "none" => db.col)

\* C5 witness: the table started without the column, an earlier call added it, and a
\* later call against the provisioned schema has returned normally
C5_Witness ==
    /\ pc = "u_return"
    /\ exc = "none"
    /\ db0.col
    /\ db.col
    /\ \E id \in SinkIds : db0.rows[id].exp = PyNone

Updated == {k \in 1..Len(visited) : visited[k].out = "updated"}
NotUpdated == {k \in 1..Len(visited) : visited[k].out # "updated"}
NonZero(n) == n # 0
Balanced(s) == s.ok + s.failed = s.processed

\* C3 (as claimed): for every roster and every per-record outcome the batch visits
\* every record once in roster order, reaches its summary, and at the summary
\* successful + failed = processed.
C3_BatchReachesSummary ==
    (prog \in Batches /\ pc = "m_done") =>
        /\ \A k \in 1..Len(visited) : visited[k].id = k
        /\ Len(visited) = Total(tours)
        /\ summary # <<>>
        /\ \A k \in 1..Len(summary) : Balanced(summary[k])

\* C3 (amended): for every roster with at least one record and every per-record
\* outcome, every record is visited exactly once in roster order, no outcome ends
\* the batch, the batch reaches its summary, and there successful + failed =
\* processed, for each tournament that has players and in the overall totals; with
\* no record (or no tournament) the batch returns after a message without a summary,
\* and a tournament without players is passed over without a tournament summary.
C3_NonEmptyBatchReachesSummary ==
    prog \in Batches =>
        /\ pc # "m_crashed"
        /\ \A k \in 1..Len(visited) : visited[k].id = k
        /\ Len(visited) <= Total(tours)
        /\ \A k \in 1..Len(summary) : Balanced(summary[k])
        /\ (pc = "b_loop" => succ + failed = ri /\ ri <= Len(roster))
        /\ (pc = "m_done" =>
              /\ Len(visited) = Total(tours)
              /\ IF prog = "all"
                 THEN summary = (IF Total(tours) = 0 THEN <<>>
                                 ELSE <<Summary("all", Total(tours), Cardinality(Updated),
                                                Cardinality(NotUpdated))>>)
                 ELSE IF tours = <<>> THEN summary = <<>>
                 ELSE LET sizes == SelectSeq(tours, NonZero)
                      IN /\ Len(summary) = Len(sizes) + 1
                         /\ \A k \in 1..Len(sizes) :
                               /\ summary[k].kind = "tournament"
                               /\ summary[k].processed = sizes[k]
                         /\ summary[Len(summary)] =
                               Summary("overall", Total(tours), Cardinality(Updated),
                                       Cardinality(NotUpdated)))

\* C3 witness: two tournaments of one player each; the first record failed, the second
\* was updated, and the overall summary counts one of each
C3_Witness ==
    /\ pc = "m_done"
    /\ prog = "tournaments"
    /\ tours = <<1, 1>>
    /\ Len(visited) = 2
    /\ visited[1].out = "error"
    /\ visited[2].out = "updated"
    /\ Len(summary) = 3
    /\ summary[3] = Summary("overall", 2, 1, 1)

---------------------------------------------------------------------------
(* Claims about wait timeouts, driver exhaustion, the table parser and the store. *)

\* the wait that was logged last, if it timed out
LastTimedOut(ws) ==
    /\ waits # <<>>
    /\ waits[Len(waits)].res = "TimeoutException"
    /\ waits[Len(waits)].w \in ws

\* C11 (as claimed): a timeout of any wait other than the row-presence check (search
\* input, search button, first cell, rating node, expiration node) leaves a missing
\* value and the operation goes on to produce its record or table; only a timeout of
\* the row-presence check fails the whole record.
C11_OnlyRowTimeoutIsFatal ==
    /\ (LastTimedOut({"input", "button", "cell", "rating", "exp"})
          => pc \in {"f_button", "f_row", "f_table", "l_exp", "l_finally"}
             /\ ret \notin {TimeoutMessage, PyNone})
    /\ (LastTimedOut({"row"}) => ret = TimeoutMessage)

\* C11 (amended): a timeout of the wait for a non-empty first cell (form search) or
\* for the rating node (profile lookup) is tolerated: the operation goes on and the
\* table or record is still produced, the rating being "Not found". A timeout of the
\* wait for the search input, the search button or the first result row fails the
\* form search, which returns its timeout message; a timeout of the wait for the
\* expiration node fails the lookup, which returns nothing.
C11_TimeoutsByWait ==
    /\ (LastTimedOut({"cell"}) => pc = "f_table" /\ ret = Unset)
    /\ (LastTimedOut({"rating"}) => pc = "l_exp" /\ exc = "none" /\ rating = PyNone)
    /\ (LastTimedOut({"get", "input", "button", "row"})
          => pc \in {"f_finally", "f_print", "m_done"} /\ ret = TimeoutMessage)
    /\ (LastTimedOut({"exp"}) => pc \notin {"l_rating", "l_exp"} /\ ret = PyNone /\ exc = "none")
    /\ (pc \in {"l_finally", "l_return"} /\ exc = "none" /\ ret # PyNone /\ waits # <<>>
          /\ waits[1].res = "TimeoutException"
          => ret.t = "dict" /\ ret.rating = PyStr(NotFound))

\* C11 witness: the form search whose first-cell wait timed out has ended with a
\* populated table
C11_Witness ==
    /\ pc = "m_done"
    /\ prog = "form"
    /\ ret.t = "DataFrame"
    /\ \E k \in 1..Len(waits) : waits[k] = WaitLog("cell", "TimeoutException")

\* C12: exhaustion of every driver acquisition strategy is fatal to the run: the card
\* search then ends with an error outcome and writes no result list, not even an
\* empty one, to standard output, and a batch begins no further record after a
\* record whose driver acquisition failed.
C12_DriverExhaustionIsFatal ==
    /\ (prog = "search" /\ AllFailed => stdout = Unset)
    /\ (prog \in Batches /\ pc = "l_acquire" => Len(quits) = Len(visited))
\* the parsing step of the form search has just run on the table of the page
Parsed ==
    /\ prog = "form"
    /\ pc = "f_finally"
    /\ waits # <<>>
    /\ waits[Len(waits)] = WaitLog("table", "found")

\* C13: the fallback stage of the table parser is entered if and only if every cell
\* of the structured parse is null, and when it is entered the diagnostic result
\* carries a row count equal to the number of <tr> fragments inside the <tbody> of
\* the table, for any number of rows and any form of the tbody tag. The count is
\* accepted here in the returned value or in what the stage prints.
C13_FallbackCountsRows ==
    Parsed =>
        /\ (ret = StructureMessage <=> html.shape # "unreadable" /\ AllNull(html))
        /\ (ret = StructureMessage
              => \/ "rows" \in DOMAIN ret /\ ret.rows = Len(html.rows)
                 \/ stdout = [t |-> "print", found |-> Len(html.rows)])

\* the text n is what is left of the cell text c after its final line break, without
\* surrounding blanks
IsCleanOf(n, c) ==
    \E i \in 0..Len(c) :
        /\ i > 0 => c[i] = "LF"
        /\ \A k \in (i + 1)..Len(c) : c[k] # "LF"
        /\ \E a \in i..Len(c) :
              \E b \in a..Len(c) :
                 /\ n = SubSeq(c, a + 1, b)
                 /\ \A k \in (i + 1)..a : c[k] = " "
                 /\ \A k \in (b + 1)..Len(c) : c[k] = " "
                 /\ n # <<>> => n[1] # " " /\ n[Len(n)] # " "

\* the populated outcome for the table tb
Populated(r, tb) ==
    /\ r.t = "DataFrame"
    /\ r.columns = CanonicalColumns
    /\ Len(r.columns) = 11
    /\ Len(r.rows) = Len(tb.rows)
    /\ \A k \in 1..Len(r.rows) :
          IF tb.rows[k].name.t = "str"
          THEN r.rows[k].name.t = "str" /\ IsCleanOf(r.rows[k].name.s, tb.rows[k].name.s)
          ELSE r.rows[k].name = tb.rows[k].name

\* C14: every run of the table parsing of the form search ends in exactly one of
\* three outcomes: a populated table whose columns are the eleven canonical headers
\* in order and whose Name values are the stripped text after the last line break of
\* the cell, a diagnostic-only result when the structured parse fails, or the explicit
\* "no rows" result when the table has no rows; a table without rows never ends in a
\* timeout or error outcome nor in the diagnostic one. (A crash of the browser is left
\* out of the second part.)
C14_ThreeOutcomes ==
    /\ (Parsed => \/ Populated(ret, html)
                  \/ ret \in {StructureMessage, ParseErrorMessage}
                  \/ ret = NoRowsMessage /\ html.rows = <<>>)
    /\ (/\ prog = "form"
        /\ pc = "m_done"
        /\ Len(waits) >= 4
        /\ html.rows = <<>>
        /\ waits[4].res # "WebDriverException")
       => ret = NoRowsMessage

SinkPoints == {"u_connect", "u_rating", "u_alter", "u_exp", "u_commit", "u_return"}
\* the row is as the batch found it
Untouched(row) == row.rating = PyInt(1500) /\ row.exp \in {OldDate, PyNone}
\* the records counted as successful so far
UpdatedIds == {visited[k].id : k \in Updated}

\* C15: in a batch the stored row of a player is modified only for the records that
\* are counted as successful: the storage write is invoked only with the record a
\* scrape returned, never after a scrape that returned nothing or raised; a storage
\* write that raises leaves the rating and the expiration date of its row as they
\* were (both updates are committed together or not at all); and a write changes no
\* row but that of its own record.
C15_OnlySuccessfulRecordsChangeRows ==
    prog \in Batches =>
        /\ (pc \in SinkPoints
              => ret.t = "dict" /\ u_id = roster[ri].id /\ ret.player_id = roster[ri].uscf)
        /\ (pc \in SinkPoints \ {"u_return"} => db.rows = db0.rows)
        /\ (pc = "u_return" /\ exc # "none" => db.rows = db0.rows)
        /\ (pc = "u_return" /\ exc = "none"
              => \A id \in DOMAIN db.rows \ {u_id} : db.rows[id] = db0.rows[id])
        /\ \A id \in DOMAIN db.rows :
              (id \notin UpdatedIds /\ ~(pc = "u_return" /\ exc = "none" /\ id = u_id))
                 => Untouched(db.rows[id])

\* C15 witness: in a batch over two records the write of the first record has raised
\* at the UPDATE of the expiration date, after the UPDATE of the rating had run, and
\* both rows are as before
C15_Witness ==
    /\ pc = "u_return"
    /\ prog = "all"
    /\ Len(roster) = 2
    /\ u_id = 1
    /\ RatingInt(u_rating).ok
    /\ exc = "sqlite3.OperationalError"
    /\ Untouched(db.rows[1])
    /\ Untouched(db.rows[2])

\* C16: when the driver acquisition fails inside get_uschess_info, so that no handle
\* was ever created, the lookup fails with the acquisition error itself: the cleanup
\* closes nothing and does not put another error in its place.
C16_AcquisitionErrorSurvivesCleanup ==
    (pc = "l_return" /\ driver = NoDriver)
        => exc = "WebDriverException"


=============================================================================
